---- MODULE Spec2Model ----
(***************************************************************************)
(* Model of the translation batch of scripts/translate_ibn_arabi.py:       *)
(* translate_text (retry loop around one API call), process_page (skip,    *)
(* translate, persist or record the failure) and main (parse, filter,      *)
(* dispatch over a ThreadPoolExecutor, summary, combined file).            *)
(*                                                                         *)
(* A page id page_<n> is modelled by the number n.  The output directory   *)
(* is modelled by three maps from page numbers to file contents            *)
(* (<id>.txt, <id>.meta.json, errors/<id>.error.json) plus the summary     *)
(* and the combined file.  A file content is the tuple <<run, index>>      *)
(* naming the process_page invocation that wrote it, so that an overwrite  *)
(* by another invocation is a visible change.  Every open/write of a       *)
(* per-page file may raise; the writes of the summary and of the combined  *)
(* file are taken to succeed.                                              *)
(*                                                                         *)
(* Three functions are also modelled on their own, each with variables of  *)
(* its own and a specification of its own: create_combined_translation     *)
(* with file names as written (SpecC), main() of scripts/claude_pdf_ocr.py *)
(* (SpecO) and escape_latex of scripts/create_latex_book.py (SpecE).       *)
(***************************************************************************)
EXTENDS Integers, Sequences, FiniteSets, TLC

\* ------------------------------------------------------------------ bounds
MaxPages == 2        \* page ids are page_1 .. page_MaxPages
MaxItems == 2        \* longest parsed page list
MaxRuns == 2         \* invocations of main() on the same output directory
MaxWorkers == 2      \* largest --workers value
MaxFaults == 1       \* file-system errors injected over the whole behaviour
MaxRetriesArg == 3   \* largest max_retries argument given to translate_text alone
MaxDelay == 3        \* largest retry_delay argument given to translate_text alone

\* ------------------------------------------------------- program constants
max_retries == 3     \* translate_text(..., max_retries=3, ...)
retry_delay == 2     \* translate_text(..., retry_delay=2)

Ids == 1..MaxPages

\* --------------------------------------------------------------- files
Absent == <<>>                   \* the path does not exist
Truncated == <<0>>               \* opened with 'w', the write then failed

Exists(content) == content # Absent

\* open(path, 'w') followed by a write (translate_ibn_arabi.py:132-133,
\* 145-146, 166-167): on success the file holds the new content; when open
\* raises the path is untouched; when the write raises after a successful
\* open the file is left truncated.
WriteFile(old, new, fault) ==
    CASE fault = "none"  -> new
      [] fault = "open"  -> old
      [] fault = "write" -> Truncated

Faults == {"none", "open", "write"}

\* ----------------------------------------------------- translate_text
\* What one client.messages.create call, followed by response.content[0].text,
\* can do: return text, raise RateLimitError, raise another APIError, raise
\* any other exception, or return a response with no content (IndexError).
Outcomes == {"ok", "rate_limit", "api_error", "fatal", "malformed"}

\* no backoff: the delay does not grow with the attempt
WaitTimeConstant(delay, att) == delay

\* wait_time = retry_delay * (2 ** attempt)      (lines 99 and 104)
WaitTime(delay, att) == delay * (2 ^ att)

\* the exception class each failing outcome raises (RateLimitError is a
\* subclass of APIError; IndexError comes from response.content[0], line 97)
ExcKind(o) ==
    CASE o = "rate_limit" -> "RateLimitError"
      [] o = "api_error"  -> "APIError"
      [] o = "fatal"      -> "FatalError"
      [] o = "malformed"  -> "IndexError"

\* the last-attempt test dropped: an APIError always sleeps and goes on
ApiErrorAlwaysRetries(att, retries) == TRUE

\* except APIError: if attempt < max_retries - 1  (line 103)
ApiErrorRetries(att, retries) == att < retries - 1

\* except RateLimitError: sleeps unconditionally  (lines 98-101)
RateLimitSleeps(att, retries) == TRUE

\* every exception handled like an APIError: retried unless the attempt is the last
SleepsOnAnyError(o, att, retries) == o = "rate_limit" \/ att < retries - 1

\* Which except clause sleeps and lets the loop go on (lines 98-112):
\* RateLimitError always, another APIError unless the attempt is the last,
\* any other exception never
Sleeps(o, att, retries) ==
    \/ o = "rate_limit" /\ RateLimitSleeps(att, retries)
    \/ o = "api_error" /\ ApiErrorRetries(att, retries)

\* for attempt in range(max_retries)              (line 84)
LoopContinues(att, retries) == att < retries

NoExc == <<>>

\* One iteration of translate_text's loop (lines 84-112) together with the
\* range test that follows it and the raise after the loop (line 114).
\* att is the loop variable, o what the API call of this iteration does.
\* The result says where the function is afterwards ("loop": next
\* iteration, "return", "raise"), the new loop variable, the sleep made
\* (<<>> when none) and the exception raised.
TranslateStep(att, o, retries, delay) ==
    CASE o = "ok" ->
            [pc |-> "return", attempt |-> att, slept |-> <<>>, exc |-> NoExc]
      [] o # "ok" /\ Sleeps(o, att, retries) ->
            IF LoopContinues(att + 1, retries)
            THEN [pc |-> "loop", attempt |-> att + 1,
                  slept |-> <<WaitTime(delay, att)>>, exc |-> NoExc]
            ELSE [pc |-> "raise", attempt |-> att + 1,
                  slept |-> <<WaitTime(delay, att)>>, exc |-> <<"Exception", att>>]
      [] o # "ok" /\ ~Sleeps(o, att, retries) ->
            [pc |-> "raise", attempt |-> att, slept |-> <<>>,
             exc |-> <<ExcKind(o), att>>]

\* ----------------------------------------------------- process_page
\* the force flag inverted
ShouldSkipInverted(exists, force_retranslate) == exists /\ force_retranslate

\* the existence check dropped: nothing is ever skipped
ShouldSkipNever(exists, force_retranslate) == FALSE

\* the force flag ignored
ShouldSkipIgnoresForce(exists, force_retranslate) == exists

\* if output_filepath.exists() and not force_retranslate   (line 123)
ShouldSkip(exists, force_retranslate) == exists /\ ~force_retranslate

\* a handler that catches the API's own errors only
CaughtApiErrorsOnly(kind) == kind \in {"APIError", "RateLimitError"}

\* except Exception as e   (line 151): every exception translate_text or a
\* file write raises is an Exception
Caught(kind) == TRUE

VARIABLES
    ocr_file,       \* the OCR results file given to main()
    page_entries,   \* what parse_ocr_file returns for the OCR file
    fileOut,        \* <id>.txt               : [Ids -> content]
    fileMeta,       \* <id>.meta.json         : [Ids -> content]
    fileErr,        \* errors/<id>.error.json : [Ids -> content]
    summary,        \* translation_summary.json
    combined,       \* combined_translation.txt
    run,            \* number of the current (or last) run of main()
    mainpc,         \* position of main()
    job,            \* page ids dispatched in this run, in dispatch order
    force,          \* args.force of this run
    workers,        \* args.workers of this run
    results,        \* main's results list: <<page id, status>> pairs
    ppc,            \* position of each process_page invocation
    attempt,        \* translate_text's loop variable, per invocation
    lastOutcome,    \* what the invocation's latest API call did
    exc,            \* exception in flight in the invocation
    status,         \* status the invocation returned
    wrote,          \* kinds of file the invocation has written
    invoked,        \* the invocation has called translate_text
    startOut,       \* fileOut when the current run started
    prevStatus,     \* per page id: status of its last invocation in the previous run
    repeat,         \* this run repeats the previous run's items, both without --force
    log,            \* the error main() logged before returning early, or "none"
    faults,         \* file-system errors injected so far
    t_retries,      \* translate_text alone: its max_retries argument
    t_delay,        \* translate_text alone: its retry_delay argument
    t_pc,           \* translate_text alone: "loop", "return" or "raise"
    t_attempt,      \* translate_text alone: the loop variable
    t_trace,        \* translate_text alone: the API calls and sleeps made
    t_exc,          \* translate_text alone: the exception raised
    c_listing,      \* create_combined_translation alone: what os.listdir returns
    c_pc,           \* create_combined_translation alone: "call" or "done"
    c_combined,     \* create_combined_translation alone: combined_translation.txt
    o_pages,        \* claude_pdf_ocr.main: number of single-page PDFs
    o_index,        \* claude_pdf_ocr.main: pages the loop has been through
    o_results,      \* claude_pdf_ocr.main: the results list
    o_file,         \* claude_pdf_ocr.main: the result file, as its blocks
    o_pc,           \* claude_pdf_ocr.main: "loop", "done" or "interrupted"
    e_text,         \* escape_latex: its argument
    e_out,          \* escape_latex: the local text
    e_step          \* escape_latex: entries of escapes gone through

fsVars == <<fileOut, fileMeta, fileErr, summary, combined>>
runVars == <<run, mainpc, job, force, workers, results, startOut, prevStatus, repeat,
             log>>
invVars == <<ppc, attempt, lastOutcome, exc, status, wrote, invoked>>
tVars == <<t_retries, t_delay, t_pc, t_attempt, t_trace, t_exc>>
cVars == <<c_listing, c_pc, c_combined>>
oVars == <<o_pages, o_index, o_results, o_file, o_pc>>
eVars == <<e_text, e_out, e_step>>
toolVars == <<cVars, oVars, eVars>>
batchVars == <<ocr_file, page_entries, fsVars, runVars, invVars, faults>>
vars == <<batchVars, tVars, toolVars>>

\* ------------------------------------------------------------ helpers
Statuses == {"completed", "skipped", "failed"}

RECURSIVE Repeat(_, _)
Repeat(v, n) == IF n = 0 THEN <<>> ELSE <<v>> \o Repeat(v, n - 1)

\* every sequence over S of length 0..n
RECURSIVE SeqsUpTo(_, _)
SeqsUpTo(S, n) ==
    IF n = 0 THEN {<<>>}
    ELSE LET shorter == SeqsUpTo(S, n - 1)
         IN shorter \cup {Append(q, x) : q \in {r \in shorter : Len(r) = n - 1}, x \in S}

Indices == 1..Len(job)

\* an invocation that holds a worker thread
Running(i) == ppc[i] \in {"translate", "write_out", "write_meta", "except"}
Finished(i) == ppc[i] \in {"returned", "raised", "cancelled"}

\* The OCR results file: it does not exist, or it cannot be read as UTF-8
\* text, or it is read; blocks are the page ids of its blocks
\* "===== page_<n> =====", in file order.
OcrFiles ==
    {[state |-> "missing", blocks |-> <<>>]}
        \cup {[state |-> st, blocks |-> b] :
                 st \in {"unreadable", "readable"}, b \in SeqsUpTo(Ids, MaxItems)}

\* parse_ocr_file (lines 40-61): one entry per block found, in file order;
\* an exception raised by open() or read() is caught and [] is returned
parse_ocr_file(file) ==
    IF file.state = "readable" THEN file.blocks ELSE <<>>

\* [page_id for page_id, text in page_entries if page_id in args.pages]
\* (lines 224-225); an absent --pages is the empty set
FilterPages(entries, pages) ==
    IF pages = {} THEN entries
    ELSE SelectSeq(entries, LAMBDA id : id \in pages)

MainErrorNoPagesCheck(key, entries, pages) ==
    IF ~key THEN "no_key"
    ELSE IF pages # {} /\ FilterPages(entries, pages) = <<>> THEN "no_match"
    ELSE "none"

MainErrorNoMatchCheck(key, entries, pages) ==
    IF ~key THEN "no_key"
    ELSE IF entries = <<>> THEN "no_pages"
    ELSE "none"

\* the early returns of main() (lines 210-228), named by the error logged:
\* the API key is missing, the OCR file gave no page, or --pages was given
\* and no parsed page is among them
MainError(key, entries, pages) ==
    IF ~key THEN "no_key"
    ELSE IF entries = <<>> THEN "no_pages"
    ELSE IF FilterPages(entries, pages) = <<>> THEN "no_match"
    ELSE "none"

\* sum(1 for _, status in results if status == s)   (lines 253-255)
CountStatus(res, s) == Cardinality({k \in 1..Len(res) : res[k][2] = s})

\* dict(results): the last pair of a page id wins     (line 272)
DictOf(res) ==
    [id \in {res[k][1] : k \in 1..Len(res)} |->
        LET last == CHOOSE k \in 1..Len(res) :
                        /\ res[k][1] = id
                        /\ \A m \in 1..Len(res) : res[m][1] = id => m <= k
        IN res[last][2]]

\* translation files of the directory sorted by page number (lines 288-294)
RECURSIVE SortedFrom(_, _)
SortedFrom(S, n) ==
    IF S = {} THEN <<>>
    ELSE IF n \in S THEN <<n>> \o SortedFrom(S \ {n}, n + 1)
    ELSE SortedFrom(S, n + 1)

\* create_combined_translation (lines 283-314): one section per existing
\* <id>.txt in page order; nothing is written when there is none
CombinedOf(files, old) ==
    LET present == {id \in Ids : Exists(files[id])}
        order == SortedFrom(present, 1)
    IN IF present = {} THEN old
       ELSE [k \in 1..Len(order) |-> <<order[k], files[order[k]]>>]

\* ---------------------------------------------------------------- Init
\* the translate_text call studied alone, before and outside the batch
TIdle ==
    /\ t_retries = max_retries
    /\ t_delay = retry_delay
    /\ t_pc = "loop"
    /\ t_attempt = 0
    /\ t_trace = <<>>
    /\ t_exc = NoExc

BatchInit ==
    /\ ocr_file \in OcrFiles
    /\ page_entries = parse_ocr_file(ocr_file)
    /\ fileOut = [id \in Ids |-> Absent]
    /\ fileMeta = [id \in Ids |-> Absent]
    /\ fileErr = [id \in Ids |-> Absent]
    /\ summary = Absent
    /\ combined = Absent
    /\ run = 0
    /\ mainpc = "idle"
    /\ job = <<>>
    /\ force = FALSE
    /\ workers = 1
    /\ results = <<>>
    /\ ppc = <<>>
    /\ attempt = <<>>
    /\ lastOutcome = <<>>
    /\ exc = <<>>
    /\ status = <<>>
    /\ wrote = <<>>
    /\ invoked = <<>>
    /\ startOut = [id \in Ids |-> Absent]
    /\ prevStatus = <<>>
    /\ repeat = FALSE
    /\ log = "none"
    /\ faults = 0

\* the other functions studied alone are not running
CIdle ==
    /\ c_listing = <<>>
    /\ c_pc = "call"
    /\ c_combined = Absent

OIdle ==
    /\ o_pages = 0
    /\ o_index = 0
    /\ o_results = <<>>
    /\ o_file = Absent
    /\ o_pc = "loop"

EIdle ==
    /\ e_text = <<>>
    /\ e_out = <<>>
    /\ e_step = 0

ToolIdle == CIdle /\ OIdle /\ EIdle

Init == BatchInit /\ TIdle /\ ToolIdle

\* ---------------------------------------------------------------- main
\* main() from argument parsing to executor.map (lines 171-246)
StartRun(key, f, w, pages) ==
    /\ mainpc \in {"idle", "done", "aborted", "crashed"}
    /\ run < MaxRuns
    /\ run' = run + 1
    /\ LET selected == FilterPages(page_entries, pages)
           n == Len(selected)
           error == MainError(key, page_entries, pages)
           go == error = "none"
       IN /\ mainpc' = IF go THEN "collect" ELSE "aborted"
          /\ log' = error
          /\ job' = IF go THEN selected ELSE <<>>
          /\ ppc' = IF go THEN Repeat("queued", n) ELSE <<>>
          /\ attempt' = IF go THEN Repeat(0, n) ELSE <<>>
          /\ lastOutcome' = IF go THEN Repeat("none", n) ELSE <<>>
          /\ exc' = IF go THEN Repeat(NoExc, n) ELSE <<>>
          /\ status' = IF go THEN Repeat("none", n) ELSE <<>>
          /\ wrote' = IF go THEN Repeat({}, n) ELSE <<>>
          /\ invoked' = IF go THEN Repeat(FALSE, n) ELSE <<>>
          /\ repeat' = (go /\ mainpc \in {"done", "crashed"} /\ selected = job
                           /\ ~f /\ ~force)
          /\ prevStatus' = IF go /\ selected = job THEN status ELSE <<>>
    /\ force' = f
    /\ workers' = w
    /\ results' = <<>>
    /\ startOut' = fileOut
    /\ UNCHANGED <<ocr_file, page_entries, fsVars, faults, tVars, toolVars>>

\* for result in executor.map(...): results.append(result)  (lines 245-250);
\* the map iterator yields the results in dispatch order
Collect ==
    /\ mainpc = "collect"
    /\ Len(results) < Len(job)
    /\ LET k == Len(results) + 1
       IN /\ ppc[k] = "returned"
          /\ results' = Append(results, <<job[k], status[k]>>)
    /\ UNCHANGED <<ocr_file, page_entries, fsVars, run, mainpc, job, force, workers,
                   startOut, prevStatus, repeat, log, invVars, faults, tVars, toolVars>>

\* the future the iterator waits for raised: the exception leaves the
\* iterator, whose finally clause cancels every future not yet started
CollectRaises ==
    /\ mainpc = "collect"
    /\ Len(results) < Len(job)
    /\ ppc[Len(results) + 1] = "raised"
    /\ ppc' = [i \in Indices |-> IF ppc[i] = "queued" THEN "cancelled" ELSE ppc[i]]
    /\ mainpc' = "unwinding"
    /\ UNCHANGED <<ocr_file, page_entries, fsVars, run, job, force, workers, results,
                   startOut, prevStatus, repeat, log, attempt, lastOutcome, exc, status,
                   wrote, invoked, faults, tVars, toolVars>>

\* the with block's exit joins the running workers, then the exception
\* leaves main(): lines 252-281 are not executed
ExecutorExit ==
    /\ mainpc = "unwinding"
    /\ \A i \in Indices : Finished(i)
    /\ mainpc' = "crashed"
    /\ UNCHANGED <<ocr_file, page_entries, fsVars, run, job, force, workers, results,
                   startOut, prevStatus, repeat, log, invVars, faults, tVars, toolVars>>

\* summary and combined file (lines 252-281); args.create_combined is read
\* here and nowhere before, so its value is drawn at this step
Summarize(create_combined) ==
    /\ mainpc = "collect"
    /\ Len(results) = Len(job)
    /\ LET completed == CountStatus(results, "completed")
           skipped == CountStatus(results, "skipped")
           failed == CountStatus(results, "failed")
       IN /\ summary' = <<[run |-> run, total_pages |-> Len(job),
                           completed |-> completed, skipped |-> skipped,
                           failed |-> failed, results |-> DictOf(results)]>>
          /\ combined' = IF create_combined /\ completed > 0
                         THEN CombinedOf(fileOut, combined) ELSE combined
    /\ mainpc' = "done"
    /\ UNCHANGED <<ocr_file, page_entries, fileOut, fileMeta, fileErr, run, job, force,
                   workers, results, startOut, prevStatus, repeat, log, invVars, faults,
                   tVars, toolVars>>

\* -------------------------------------------------------- process_page
Upd(s, i, v) == [s EXCEPT ![i] = v]

\* a file-system error may be injected while the budget lasts
MayFault(f) == f = "none" \/ faults < MaxFaults
Charge(f) == IF f = "none" THEN faults ELSE faults + 1

\* A worker thread takes the oldest queued work item and runs process_page
\* up to the existence check (lines 116-129)
Begin(i) ==
    /\ mainpc = "collect"
    /\ i \in Indices
    /\ ppc[i] = "queued"
    /\ \A j \in 1..(i - 1) : ppc[j] # "queued"
    /\ Cardinality({j \in Indices : Running(j)}) < workers
    /\ IF ShouldSkip(Exists(fileOut[job[i]]), force)
       THEN /\ ppc' = Upd(ppc, i, "returned")
            /\ status' = Upd(status, i, "skipped")
            /\ UNCHANGED invoked
       ELSE /\ ppc' = Upd(ppc, i, "translate")
            /\ invoked' = Upd(invoked, i, TRUE)
            /\ UNCHANGED status
    /\ UNCHANGED <<ocr_file, page_entries, fsVars, runVars, attempt, lastOutcome, exc, wrote,
                   faults, tVars, toolVars>>

\* One iteration of the loop of the translate_text call made at line 129,
\* with the default max_retries and retry_delay; an exception it raises
\* reaches the handler of line 151
ApiAttempt(i, o) ==
    /\ i \in Indices
    /\ ppc[i] = "translate"
    /\ LET r == TranslateStep(attempt[i], o, max_retries, retry_delay)
       IN /\ attempt' = Upd(attempt, i, r.attempt)
          /\ exc' = Upd(exc, i, r.exc)
          /\ ppc' = Upd(ppc, i,
                 CASE r.pc = "loop" -> "translate"
                   [] r.pc = "return" -> "write_out"
                   [] r.pc = "raise" -> IF Caught(r.exc[1]) THEN "except" ELSE "raised")
    /\ lastOutcome' = Upd(lastOutcome, i, o)
    /\ UNCHANGED <<ocr_file, page_entries, fsVars, runVars, status, wrote, invoked, faults, tVars, toolVars>>

\* with open(output_filepath, 'w') ...: file.write(translation)  (lines 131-133)
WriteOutput(i, f) ==
    /\ i \in Indices
    /\ ppc[i] = "write_out"
    /\ MayFault(f)
    /\ fileOut' = [fileOut EXCEPT ![job[i]] = WriteFile(@, <<run, i>>, f)]
    /\ wrote' = Upd(wrote, i, IF f = "open" THEN wrote[i] ELSE wrote[i] \cup {"out"})
    /\ IF f = "none"
       THEN /\ ppc' = Upd(ppc, i, "write_meta")
            /\ UNCHANGED exc
       ELSE /\ ppc' = Upd(ppc, i, "except")
            /\ exc' = Upd(exc, i, <<"OSError", 0>>)
    /\ lastOutcome' = Upd(lastOutcome, i, "none")
    /\ attempt' = Upd(attempt, i, 0)
    /\ faults' = Charge(f)
    /\ UNCHANGED <<ocr_file, page_entries, fileMeta, fileErr, summary, combined, runVars,
                   status, invoked, tVars, toolVars>>

\* metadata record, then return "completed"  (lines 135-149)
WriteMeta(i, f) ==
    /\ i \in Indices
    /\ ppc[i] = "write_meta"
    /\ MayFault(f)
    /\ fileMeta' = [fileMeta EXCEPT ![job[i]] = WriteFile(@, <<run, i>>, f)]
    /\ wrote' = Upd(wrote, i, IF f = "open" THEN wrote[i] ELSE wrote[i] \cup {"meta"})
    /\ IF f = "none"
       THEN /\ ppc' = Upd(ppc, i, "returned")
            /\ status' = Upd(status, i, "completed")
            /\ UNCHANGED exc
       ELSE /\ ppc' = Upd(ppc, i, "except")
            /\ exc' = Upd(exc, i, <<"OSError", 0>>)
            /\ UNCHANGED status
    /\ faults' = Charge(f)
    /\ UNCHANGED <<ocr_file, page_entries, fileOut, fileErr, summary, combined, runVars,
                   attempt, lastOutcome, invoked, tVars, toolVars>>

\* except Exception: error record, then return "failed"  (lines 151-169);
\* an error raised by mkdir, open or json.dump leaves process_page
HandleError(i, f) ==
    /\ i \in Indices
    /\ ppc[i] = "except"
    /\ MayFault(f)
    /\ fileErr' = [fileErr EXCEPT ![job[i]] = WriteFile(@, <<run, i>>, f)]
    /\ wrote' = Upd(wrote, i, IF f = "open" THEN wrote[i] ELSE wrote[i] \cup {"err"})
    /\ IF f = "none"
       THEN /\ ppc' = Upd(ppc, i, "returned")
            /\ status' = Upd(status, i, "failed")
            /\ exc' = Upd(exc, i, NoExc)
       ELSE /\ ppc' = Upd(ppc, i, "raised")
            /\ exc' = Upd(exc, i, <<"OSError", 0>>)
            /\ UNCHANGED status
    /\ lastOutcome' = Upd(lastOutcome, i, "none")
    /\ attempt' = Upd(attempt, i, 0)
    /\ faults' = Charge(f)
    /\ UNCHANGED <<ocr_file, page_entries, fileOut, fileMeta, summary, combined, runVars,
                   invoked, tVars, toolVars>>

\* ---------------------------------------------------------------- Next
Next ==
    \/ \E key \in BOOLEAN, f \in BOOLEAN, w \in 1..MaxWorkers, pages \in SUBSET Ids :
           StartRun(key, f, w, pages)
    \/ \E i \in 1..MaxItems : Begin(i)
    \/ \E i \in 1..MaxItems, o \in Outcomes : ApiAttempt(i, o)
    \/ \E i \in 1..MaxItems, f \in Faults : WriteOutput(i, f)
    \/ \E i \in 1..MaxItems, f \in Faults : WriteMeta(i, f)
    \/ \E i \in 1..MaxItems, f \in Faults : HandleError(i, f)
    \/ Collect
    \/ CollectRaises
    \/ ExecutorExit
    \/ \E cc \in BOOLEAN : Summarize(cc)

Spec == Init /\ [][Next]_vars

\* Scheduling: a worker thread that can take a step of its process_page
\* invocation eventually takes it (the API call returns or raises, a sleep
\* ends, a file write returns or raises), and so does the main thread once
\* the run is dispatched.  Starting a further run is left to the user.
InvocationStep(i) ==
    \/ Begin(i)
    \/ \E o \in Outcomes : ApiAttempt(i, o)
    \/ \E f \in Faults : WriteOutput(i, f)
    \/ \E f \in Faults : WriteMeta(i, f)
    \/ \E f \in Faults : HandleError(i, f)

MainStep ==
    \/ Collect
    \/ CollectRaises
    \/ ExecutorExit
    \/ \E cc \in BOOLEAN : Summarize(cc)

FairSpec ==
    /\ Spec
    /\ \A i \in 1..MaxItems : WF_vars(InvocationStep(i))
    /\ WF_vars(MainStep)

\* ------------------------------------------- translate_text on its own
\* A single call translate_text(client, text, max_retries=r, retry_delay=d)
\* against an API whose behaviour at each attempt is arbitrary.
TInit ==
    /\ BatchInit
    /\ ocr_file.state = "missing"
    /\ t_retries \in 1..MaxRetriesArg
    /\ t_delay \in 1..MaxDelay
    /\ t_pc = "loop"
    /\ t_attempt = 0
    /\ t_trace = <<>>
    /\ t_exc = NoExc
    /\ ToolIdle

\* one iteration of the loop (lines 84-112), and line 114 after the last
TCall(o) ==
    /\ t_pc = "loop"
    /\ LET r == TranslateStep(t_attempt, o, t_retries, t_delay)
       IN /\ t_pc' = r.pc
          /\ t_attempt' = r.attempt
          /\ t_exc' = r.exc
          /\ t_trace' = t_trace \o << <<"call", t_attempt, o>> >>
                            \o (IF r.slept = <<>> THEN <<>>
                                ELSE << <<"sleep", r.slept[1]>> >>)
    /\ UNCHANGED <<batchVars, t_retries, t_delay, toolVars>>

TNext == \E o \in Outcomes : TCall(o)

SpecT == TInit /\ [][TNext]_vars

\* ===================================================================
\* Properties of translate_text (checked under SpecT)
\* ===================================================================
TEnded == t_pc \in {"return", "raise"}

\* the outcomes of the API attempts made so far, in order
CallEvents == SelectSeq(t_trace, LAMBDA e : e[1] = "call")
OutcomesSoFar == [k \in 1..Len(CallEvents) |-> CallEvents[k][3]]
SleepEvents == SelectSeq(t_trace, LAMBDA e : e[1] = "sleep")

AllOutcomes(o) == \A k \in 1..Len(OutcomesSoFar) : OutcomesSoFar[k] = o

\* C4 (as claimed): in a finished translate_text call every backoff wait is
\* followed by a further API attempt, so a call that is rate-limited on
\* every attempt makes max_retries retries after its first attempt.
C4_EveryWaitIsFollowedByAnAttempt ==
    (TEnded /\ t_retries = max_retries /\ t_delay = retry_delay) =>
        /\ \A k \in 1..Len(t_trace) :
               t_trace[k][1] = "sleep" =>
                   k < Len(t_trace) /\ t_trace[k + 1][1] = "call"
        /\ (AllOutcomes("rate_limit") /\ t_pc = "raise"
               => Len(CallEvents) = t_retries + 1)

\* C5: a call whose API raises a rate-limit error on exactly the first two
\* attempts and then succeeds returns the result after exactly three API
\* attempts, having waited delay*2^0 and then delay*2^1 and nothing else.
C5_TwoRateLimitsThenSuccess ==
    /\ (OutcomesSoFar = <<"rate_limit", "rate_limit">> /\ t_retries >= 3)
           => t_pc = "loop"
    /\ (OutcomesSoFar = <<"rate_limit", "rate_limit", "ok">>)
           => /\ t_pc = "return"
              /\ t_exc = NoExc
              /\ t_trace = << <<"call", 0, "rate_limit">>, <<"sleep", t_delay * 1>>,
                              <<"call", 1, "rate_limit">>, <<"sleep", t_delay * 2>>,
                              <<"call", 2, "ok">> >>

C5_Witness ==
    /\ t_pc = "return"
    /\ OutcomesSoFar = <<"rate_limit", "rate_limit", "ok">>
    /\ t_retries = max_retries
    /\ t_delay = retry_delay
    /\ SleepEvents = << <<"sleep", 2>>, <<"sleep", 4>> >>

\* C6: when every attempt raises a transient API error the call makes
\* exactly max_retries attempts, sleeps delay*2^attempt between consecutive
\* attempts and not after the last, and raises the APIError of the last
\* attempt.
C6_TransientErrorsExhaust ==
    (AllOutcomes("api_error") /\ Len(CallEvents) > 0) =>
        LET n == Len(CallEvents)
        IN /\ n <= t_retries
           /\ n < t_retries => t_pc = "loop"
           /\ n = t_retries =>
                 /\ t_pc = "raise"
                 /\ t_exc = <<"APIError", t_retries - 1>>
                 /\ Len(t_trace) = 2 * n - 1
                 /\ \A k \in 1..n : t_trace[2 * k - 1] = <<"call", k - 1, "api_error">>
                 /\ \A k \in 1..(n - 1) :
                        t_trace[2 * k] = <<"sleep", t_delay * (2 ^ (k - 1))>>

C6_Witness ==
    /\ t_pc = "raise"
    /\ t_retries = max_retries
    /\ t_delay = retry_delay
    /\ OutcomesSoFar = <<"api_error", "api_error", "api_error">>
    /\ SleepEvents = << <<"sleep", 2>>, <<"sleep", 4>> >>
    /\ t_exc = <<"APIError", 2>>

\* ===================================================================
\* Properties of process_page and main (checked under Spec)
\* ===================================================================
Dispatched == mainpc \in {"collect", "unwinding", "done", "crashed"}

\* the exception of a failed error-record write has left process_page
ErrorRecordWriteEscaped ==
    \E i \in Indices : ppc[i] = "raised" /\ exc[i] = <<"OSError", 0>>

\* C1: a process_page invocation that finds <id>.txt present while force is
\* false returns "skipped" in that very step, without calling
\* translate_text and without touching any file; a skipped invocation has
\* made no API attempt and written nothing.
C1_Step ==
    \A i \in 1..MaxItems :
        (/\ run' = run
         /\ i \in Indices
         /\ ppc[i] = "queued"
         /\ ppc'[i] \notin {"queued", "cancelled"}
         /\ Exists(fileOut[job[i]])
         /\ ~force)
        => /\ ppc'[i] = "returned"
           /\ status'[i] = "skipped"
           /\ invoked'[i] = FALSE
           /\ lastOutcome'[i] = "none"
           /\ wrote'[i] = {}
           /\ fsVars' = fsVars

C1_Skipped ==
    \A i \in Indices :
        status[i] = "skipped" =>
            /\ ~invoked[i]
            /\ wrote[i] = {}
            /\ ppc[i] = "returned"

C1_SkipExistingOutput == [][C1_Step]_vars /\ []C1_Skipped

C1_Witness ==
    \E i \in Indices :
        /\ ~force
        /\ status[i] = "skipped"
        /\ Exists(startOut[job[i]])
        /\ fileOut = startOut

\* C2 (as claimed): when a run without --force repeats the previous run's
\* items, itself without --force, the second run ends with every item
\* skipped, whatever the first run's statuses were, and leaves every output
\* artifact that existed unchanged.  Stated for the behaviours in which no
\* file-system error has occurred at all.
C2_SecondRunSkipsEveryItem ==
    (repeat /\ mainpc = "done" /\ faults = 0) =>
        /\ \A i \in Indices : status[i] = "skipped"
        /\ \A id \in Ids : Exists(startOut[id]) => fileOut[id] = startOut[id]

\* C2 (amended): in such a second run every item whose output artifact
\* exists when the run starts, which includes every item the first run
\* completed or skipped, is skipped without a transform call, and every
\* output artifact that existed when the run started is unchanged.
C2_SecondRunSkipsExistingOutputs ==
    repeat =>
        /\ \A i \in Indices :
              /\ prevStatus[i] \in {"completed", "skipped"}
                     => Exists(startOut[job[i]])
              /\ Exists(startOut[job[i]]) =>
                     /\ status[i] \in {"none", "skipped"}
                     /\ ~invoked[i]
                     /\ wrote[i] = {}
                     /\ (mainpc = "done" => status[i] = "skipped")
        /\ \A id \in Ids : Exists(startOut[id]) => fileOut[id] = startOut[id]

C2_Witness ==
    /\ repeat
    /\ mainpc = "done"
    /\ Len(job) = 2
    /\ prevStatus = <<"completed", "failed">>
    /\ status[1] = "skipped"
    /\ status[2] = "completed"

\* C3: in a run with --force no invocation is skipped: every invocation
\* that has started has called translate_text, also when <id>.txt existed
\* when the run started, and a run that reaches its summary has called it
\* for every selected item.
C3_ForceTransformsEveryItem ==
    force =>
        \A i \in Indices :
            /\ status[i] # "skipped"
            /\ ppc[i] \notin {"queued", "cancelled"} => invoked[i]
            /\ mainpc = "done" => invoked[i] /\ status[i] \in {"completed", "failed"}

C3_Witness ==
    /\ force
    /\ mainpc = "done"
    /\ \E i \in Indices :
          /\ Exists(startOut[job[i]])
          /\ invoked[i]
          /\ status[i] = "completed"
          /\ fileOut[job[i]] = <<run, i>>

\* C7: an API attempt that raises an error other than RateLimitError and
\* APIError, or returns a malformed response, ends translate_text at that
\* attempt, whichever it is: no sleep and no further attempt follows, and
\* the exception is in process_page's handler, which has written nothing
\* yet; the handler's step then writes the error record and returns
\* "failed", unless the write of the error record itself raises.
C7_Propagated ==
    \A i \in Indices :
        lastOutcome[i] \in {"fatal", "malformed"} =>
            /\ ppc[i] = "except"
            /\ exc[i] = <<ExcKind(lastOutcome[i]), attempt[i]>>
            /\ wrote[i] = {}
            /\ status[i] = "none"

C7_Step ==
    \A i \in 1..MaxItems :
        (/\ run' = run
         /\ i \in Indices
         /\ lastOutcome[i] \in {"fatal", "malformed"}
         /\ <<ppc[i], attempt[i], lastOutcome[i], exc[i], wrote[i]>>
               # <<ppc'[i], attempt'[i], lastOutcome'[i], exc'[i], wrote'[i]>>)
        => \/ /\ ppc'[i] = "returned"
              /\ status'[i] = "failed"
              /\ wrote'[i] = {"err"}
              /\ fileErr'[job[i]] = <<run, i>>
              /\ fileOut' = fileOut /\ fileMeta' = fileMeta
           \/ /\ ppc'[i] = "raised"
              /\ exc'[i] = <<"OSError", 0>>
              /\ faults' = faults + 1
              /\ fileOut' = fileOut /\ fileMeta' = fileMeta

C7_FatalErrorIsNotRetried == []C7_Propagated /\ [][C7_Step]_vars

C7_Witness ==
    \E i \in Indices :
        /\ lastOutcome[i] = "malformed"
        /\ attempt[i] = 1
        /\ ppc[i] = "except"
        /\ exc[i] = <<"IndexError", 1>>

\* C8 (as claimed): no process_page invocation writes both an error record
\* and an output or metadata file; a failed invocation has written no
\* output artifact and a completed one no error record.
C8_ErrorAndOutputExclusive ==
    \A i \in Indices :
        /\ ~("err" \in wrote[i] /\ wrote[i] \cap {"out", "meta"} # {})
        /\ status[i] = "failed" => "out" \notin wrote[i]
        /\ status[i] = "completed" => "err" \notin wrote[i]

\* C9: for any worker count and any pattern of transform failures (and of
\* errors writing an output or metadata file), once a run is dispatched
\* every selected item's invocation runs to its return and yields exactly
\* one of the three statuses, which main collects; no invocation is
\* cancelled or left without a status.  The one exception is a run in which
\* the write of an error record itself raised.
RunSettled ==
    /\ mainpc = "done"
    /\ Len(results) = Len(job)
    /\ \A i \in Indices :
          /\ ppc[i] = "returned"
          /\ status[i] \in Statuses
          /\ results[i] = <<job[i], status[i]>>

C9_NoneCancelled ==
    (Dispatched /\ ~ErrorRecordWriteEscaped) =>
        /\ mainpc \in {"collect", "done"}
        /\ \A i \in Indices :
              /\ ppc[i] \notin {"cancelled", "raised"}
              /\ ppc[i] = "returned" <=> status[i] \in Statuses
              /\ status[i] \in Statuses \cup {"none"}

C9_FailuresDoNotBlockSiblings ==
    /\ []C9_NoneCancelled
    /\ (mainpc = "collect") ~> (RunSettled \/ ErrorRecordWriteEscaped)

C9_Witness ==
    /\ RunSettled
    /\ workers = 2
    /\ Len(job) = 2
    /\ status = <<"failed", "completed">>
    /\ fileErr[job[1]] = <<run, 1>>

\* C10 (as claimed): a run that passed the input stage and has ended has
\* written its summary.
C10_RunEndsWithSummary ==
    (run > 0 /\ mainpc \in {"done", "crashed"}) =>
        /\ summary # Absent
        /\ summary[1].run = run

\* C11 (as claimed): in every written run summary the three counts add up
\* to total_pages, the results map has one entry per dispatched item, and
\* each count is the number of entries of the map carrying that status,
\* for every item list parse_ocr_file can return.
C11_SummaryCountsMatchResults ==
    summary # Absent =>
        LET s == summary[1]
            entries(st) == {id \in DOMAIN s.results : s.results[id] = st}
        IN /\ s.completed + s.skipped + s.failed = s.total_pages
           /\ Cardinality(DOMAIN s.results) = s.total_pages
           /\ s.completed = Cardinality(entries("completed"))
           /\ s.skipped = Cardinality(entries("skipped"))
           /\ s.failed = Cardinality(entries("failed"))

\* C12: a run started with --pages dispatches exactly the parsed items
\* whose id is among the given ids; when no parsed item is among them
\* main() logs an error and returns at once: the run has no process_page
\* invocation, hence no translate_text call, it leaves every file of the
\* output directory (summary and combined file included) as it was, and it
\* takes no further step.
C12_Step ==
    \A key \in BOOLEAN, f \in BOOLEAN, w \in 1..MaxWorkers,
       pages \in (SUBSET Ids) \ {{}} :
        StartRun(key, f, w, pages) =>
            LET matching == {k \in 1..Len(page_entries) : page_entries[k] \in pages}
            IN /\ \A k \in 1..Len(job') : job'[k] \in pages
               /\ mainpc' = "collect" => Len(job') = Cardinality(matching)
               /\ matching = {} =>
                     /\ mainpc' = "aborted"
                     /\ log' # "none"
                     /\ job' = <<>>
                     /\ ppc' = <<>>
                     /\ invoked' = <<>>
                     /\ fsVars' = fsVars
               /\ (matching = {} /\ key /\ page_entries # <<>>) => log' = "no_match"

C12_Aborted ==
    mainpc = "aborted" =>
        /\ log # "none"
        /\ job = <<>>
        /\ ppc = <<>>
        /\ invoked = <<>>
        /\ results = <<>>

C12_AbortedRunIsOver == mainpc = "aborted" => run' = run + 1

C12_SubsetFilterFailsFast ==
    /\ [][C12_Step]_vars
    /\ []C12_Aborted
    /\ [][C12_AbortedRunIsOver]_vars

C12_Witness ==
    /\ log = "no_match"
    /\ mainpc = "aborted"
    /\ page_entries # <<>>
    /\ run = 2
    /\ summary # Absent
    /\ summary[1].run = 1

\* ===================================================================
\* The batch with one page whose translation always fails fatally
\* ===================================================================
\* The page whose translate_text call raises a non-API exception at its
\* first attempt in every run; every other page is translated at the first
\* attempt.  Page ids are interchangeable and the page list is drawn in
\* both orders, so the choice of the id loses nothing.
FatalId == MaxPages

TransformOf(id) == IF id = FatalId THEN "fatal" ELSE "ok"

InitFatal ==
    /\ Init
    /\ Len(page_entries) >= 2
    /\ \A j, k \in 1..Len(page_entries) : j # k => page_entries[j] # page_entries[k]
    /\ \E k \in 1..Len(page_entries) : page_entries[k] = FatalId

\* the batch with no file-system error and the API behaving as TransformOf
NextFatal ==
    \/ \E key \in BOOLEAN, f \in BOOLEAN, w \in 1..MaxWorkers, pages \in SUBSET Ids :
           StartRun(key, f, w, pages)
    \/ \E i \in 1..MaxItems : Begin(i)
    \/ \E i \in Indices : ApiAttempt(i, TransformOf(job[i]))
    \/ \E i \in 1..MaxItems : WriteOutput(i, "none")
    \/ \E i \in 1..MaxItems : WriteMeta(i, "none")
    \/ \E i \in 1..MaxItems : HandleError(i, "none")
    \/ Collect
    \/ \E cc \in BOOLEAN : Summarize(cc)

SpecFatal == InitFatal /\ [][NextFatal]_vars

\* C13 (as claimed): when a run of N >= 2 distinct pages, one of them the
\* page that always fails, ends with --create-combined, its summary counts
\* 1 failed and N-1 completed or skipped, and the combined file exists and
\* has a section for each of the N-1 other pages and none for the failed
\* one, whatever the split between completed and skipped and whatever
\* --force.
C13_Step ==
    (/\ Summarize(TRUE)
     /\ Len(job) >= 2
     /\ Cardinality({i \in Indices : job[i] = FatalId}) = 1)
    => /\ summary'[1].failed = 1
       /\ summary'[1].completed + summary'[1].skipped = Len(job) - 1
       /\ combined' # Absent
       /\ {combined'[k][1] : k \in 1..Len(combined')}
              = {job[i] : i \in Indices} \ {FatalId}

C13_OneFatalItemStillCombines == [][C13_Step]_vars

\* ===================================================================
\* create_combined_translation on its own
\* ===================================================================
\* A file name of the output directory is modelled by its parts: the text
\* before the page number, the digits of the page number as written (so
\* that page_02.txt and page_2.txt are two names) and the text after it.
MaxListing == 3      \* most files in the directory

\* the page numbers as written in the file names: 1, 2, 02, 10, 12, 20
DigitStrings == {<<1>>, <<2>>, <<0, 2>>, <<1, 0>>, <<1, 2>>, <<2, 0>>}
MaxDigits == CHOOSE m \in 1..9 : /\ \A d \in DigitStrings : Len(d) <= m
                                 /\ \E d \in DigitStrings : Len(d) = m

PageFile(n) == [prefix |-> "page_", num |-> n, ext |-> ".txt"]
MetaFile(n) == [prefix |-> "page_", num |-> n, ext |-> ".meta.json"]
CombinedFile == [prefix |-> "combined_translation", num |-> <<>>, ext |-> ".txt"]

FileNames == {PageFile(n) : n \in DigitStrings} \cup {MetaFile(n) : n \in DigitStrings}
                 \cup {CombinedFile}

\* os.listdir: the names of the directory, each once, in any order
Listings ==
    {l \in SeqsUpTo(FileNames, MaxListing) :
        \A j, k \in 1..Len(l) : j # k => l[j] # l[k]}

\* int(text) of a run of digits
RECURSIVE ToInt(_)
ToInt(d) ==
    IF d = <<>> THEN 0
    ELSE 10 * ToInt(SubSeq(d, 1, Len(d) - 1)) + d[Len(d)]

\* rank of the digits in the order of the file names as plain strings, where
\* the "." that follows a shorter number sorts before every digit
RECURSIVE LexRank(_, _)
LexRank(d, width) ==
    IF width = 0 THEN 0
    ELSE (IF d = <<>> THEN 0 ELSE d[1] + 1) * (11 ^ (width - 1))
             + LexRank(IF d = <<>> THEN <<>> ELSE Tail(d), width - 1)

LexicalSortKey(name) == <<name.prefix, LexRank(name.num, MaxDigits + 1), name.ext>>

\* natural_sort_key (lines 28-30): re.split('([0-9]+)', s) cuts the name at
\* its run of digits; the run becomes an int, the rest lower-case text
natural_sort_key(name) == <<name.prefix, ToInt(name.num), name.ext>>

\* the test of line 290
Listed(name) ==
    /\ name.prefix = "page_"
    /\ name.ext = ".txt"
    /\ name.ext # ".meta.json"

\* Python's comparison of two keys of listed files: the texts before the
\* numbers are equal, the numbers decide, then the texts after them
KeyLess(a, b) ==
    \/ a[2] < b[2]
    \/ a[2] = b[2] /\ a[3] = ".meta.json" /\ b[3] = ".txt"

\* list.sort(key=natural_sort_key) (line 294): stable
InsertByKey(x, sorted) ==
    LET n == Cardinality({k \in 1..Len(sorted) :
                 ~KeyLess(natural_sort_key(x), natural_sort_key(sorted[k]))})
    IN SubSeq(sorted, 1, n) \o <<x>> \o SubSeq(sorted, n + 1, Len(sorted))

RECURSIVE SortByKey(_)
SortByKey(files) ==
    IF files = <<>> THEN <<>>
    ELSE InsertByKey(files[Len(files)], SortByKey(SubSeq(files, 1, Len(files) - 1)))

\* page_id = filename.replace(".txt", "")   (line 304)
PageIdOf(name) == [prefix |-> name.prefix, num |-> name.num]

\* lines 286-312: the combined file holds, for each listed file in sorted
\* order, the line "===== <page id> =====" and then the file's text (the
\* read is taken to succeed); with no listed file nothing is written
CombinedText(listing, old) ==
    LET files == SortByKey(SelectSeq(listing, Listed))
    IN IF files = <<>> THEN old
       ELSE [k \in 1..(2 * Len(files)) |->
                IF k % 2 = 1 THEN <<"delimiter", PageIdOf(files[(k + 1) \div 2])>>
                ELSE <<"text", files[k \div 2]>>]

CInit ==
    /\ BatchInit
    /\ ocr_file.state = "missing"
    /\ TIdle
    /\ c_listing \in Listings
    /\ c_pc = "call"
    /\ c_combined = Absent
    /\ OIdle
    /\ EIdle

CCombine ==
    /\ c_pc = "call"
    /\ c_combined' = CombinedText(c_listing, c_combined)
    /\ c_pc' = "done"
    /\ UNCHANGED <<batchVars, tVars, c_listing, oVars, eVars>>

SpecC == CInit /\ [][CCombine]_vars

\* the number a page file name denotes, read off its decimal digits
PageNumber(f) ==
    CHOOSE n \in 0..(10 ^ Len(f.num) - 1) :
        \A i \in 1..Len(f.num) : f.num[i] = (n \div (10 ^ (Len(f.num) - i))) % 10

\* C14: the combined file holds the page_<n>.txt files of the directory
\* and nothing else, each exactly once, the text of each directly after the
\* delimiter line of its own page id, and the text of page_a before that of
\* page_b whenever a < b as numbers (page_2 before page_10).
C14_NaturalOrder ==
    c_pc = "done" =>
        LET pagefiles == {f \in {c_listing[k] : k \in 1..Len(c_listing)} :
                             f \in {PageFile(n) : n \in DigitStrings}}
            Pos(f) == {k \in 1..Len(c_combined) : c_combined[k] = <<"text", f>>}
        IN /\ pagefiles = {} => c_combined = Absent
           /\ pagefiles # {} =>
                 /\ Len(c_combined) = 2 * Cardinality(pagefiles)
                 /\ \A f \in pagefiles :
                        /\ Cardinality(Pos(f)) = 1
                        /\ \A k \in Pos(f) :
                               /\ k > 1
                               /\ c_combined[k - 1] =
                                      <<"delimiter", [prefix |-> "page_", num |-> f.num]>>
                 /\ \A f, g \in pagefiles :
                        PageNumber(f) < PageNumber(g) =>
                            \A j \in Pos(f), k \in Pos(g) : j < k

C14_Witness ==
    /\ c_pc = "done"
    /\ c_listing = <<PageFile(<<1, 0>>), MetaFile(<<2>>), PageFile(<<2>>)>>
    /\ c_combined = << <<"delimiter", [prefix |-> "page_", num |-> <<2>>]>>,
                       <<"text", PageFile(<<2>>)>>,
                       <<"delimiter", [prefix |-> "page_", num |-> <<1, 0>>]>>,
                       <<"text", PageFile(<<1, 0>>)>> >>

\* C15 (as claimed): for every page list parse_ocr_file can return, two
\* process_page invocations that are executing at the same time have never
\* written the same path, and a finished run leaves no page whose output
\* and metadata files were written by different invocations.  Stated for
\* the behaviours without any file-system error.
C15_NoTwoWritersOfOnePath ==
    faults = 0 =>
        /\ \A i, j \in Indices :
               (i # j /\ Running(i) /\ Running(j) /\ job[i] = job[j])
                   => wrote[i] \cap wrote[j] = {}
        /\ mainpc = "done" =>
               \A id \in Ids :
                   (Exists(fileOut[id]) /\ Exists(fileMeta[id]))
                       => fileOut[id] = fileMeta[id]

\* C16: when the OCR file is missing or unreadable, or holds no page block,
\* parse_ocr_file returns the empty list and no run goes past the input
\* stage: main() logs an error and returns, no process_page invocation
\* exists, translate_text is never called, and no per-page file, summary or
\* combined file is ever written.
C16_InputFailureAbortsBeforeDispatch ==
    (ocr_file.state # "readable" \/ ocr_file.blocks = <<>>) =>
        /\ page_entries = <<>>
        /\ mainpc \in {"idle", "aborted"}
        /\ run > 0 => log \in {"no_key", "no_pages"}
        /\ job = <<>>
        /\ ppc = <<>>
        /\ invoked = <<>>
        /\ \A id \in Ids :
               fileOut[id] = Absent /\ fileMeta[id] = Absent /\ fileErr[id] = Absent
        /\ summary = Absent
        /\ combined = Absent

C16_Witness ==
    /\ ocr_file.state = "unreadable"
    /\ ocr_file.blocks # <<>>
    /\ run = 2
    /\ mainpc = "aborted"
    /\ log = "no_pages"

\* ===================================================================
\* The OCR stage: main() of scripts/claude_pdf_ocr.py
\* ===================================================================
MaxPdfPages == 4     \* most pages of the PDF

\* The result file is modelled by the page numbers of its blocks
\* "===== page_<n> =====", in file order.
OInit ==
    /\ BatchInit
    /\ ocr_file.state = "missing"
    /\ TIdle
    /\ CIdle
    /\ EIdle
    /\ o_pages \in 0..MaxPdfPages
    /\ o_index = 0
    /\ o_results = <<>>
    /\ o_file = Absent
    /\ o_pc = "loop"

\* one iteration of the loop (lines 103-112): ocr_with_claude returns the
\* text, which is appended to the list results, or raises an Exception,
\* which is printed
OcrPage(ok) ==
    /\ o_pc = "loop"
    /\ o_index < o_pages
    /\ o_index' = o_index + 1
    /\ o_results' = IF ok THEN Append(o_results, o_index + 1) ELSE o_results
    /\ UNCHANGED <<batchVars, tVars, cVars, eVars, o_pages, o_file, o_pc>>

\* after the loop the result file is opened with "w" and one block per
\* entry of results is written (lines 114-119)
OcrSave ==
    /\ o_pc = "loop"
    /\ o_index = o_pages
    /\ o_file' = o_results
    /\ o_pc' = "done"
    /\ UNCHANGED <<batchVars, tVars, cVars, eVars, o_pages, o_index, o_results>>

\* Ctrl+C, as run_ocr.py invites (line 27): KeyboardInterrupt is no
\* Exception, so the handler of line 111 does not catch it and main() ends
OcrInterrupt ==
    /\ o_pc = "loop"
    /\ o_pc' = "interrupted"
    /\ UNCHANGED <<batchVars, tVars, cVars, eVars, o_pages, o_index, o_results, o_file>>

ONext ==
    \/ \E ok \in BOOLEAN : OcrPage(ok)
    \/ OcrSave
    \/ OcrInterrupt

SpecO == OInit /\ [][ONext]_vars

\* C17 (as claimed): at every moment of the OCR stage, also when it has
\* been interrupted, the result file holds the blocks of the pages that
\* have been OCRed successfully so far.
C17_ResultsSavedIncrementally ==
    /\ Len(o_file) = Len(o_results)
    /\ \A k \in 1..Len(o_results) : o_file[k] = o_results[k]

\* the pages dispatched in this run are pairwise distinct
DistinctJob == \A i, j \in Indices : i # j => job[i] # job[j]

\* C18 (as claimed): a page whose latest status is failed is not skipped by
\* the next run made without --force, and a page's output file exists only
\* if the latest process_page invocation that called translate_text for it
\* returned completed.  Stated for runs over distinct pages and for the
\* behaviours without any file-system error.
C18_FailedItemsAreRetried ==
    (faults = 0 /\ DistinctJob) =>
        /\ (~force /\ Len(prevStatus) = Len(job)) =>
               \A i \in Indices : prevStatus[i] = "failed" => status[i] # "skipped"
        /\ \A i \in Indices :
               (invoked[i] /\ status[i] = "failed") => ~Exists(fileOut[job[i]])

\* ===================================================================
\* escape_latex of scripts/create_latex_book.py
\* ===================================================================
\* A text is a sequence of pieces: a piece is one of the ten special
\* characters or a run of letters ("a", "textbackslash", ...), which no
\* replacement touches.  "\\" is the one-character string backslash.
MaxText == 2         \* longest argument of escape_latex, in pieces

\* the dict escapes, in its insertion order, which is the order in which
\* the loop of lines 88-89 goes through it
escapes ==
    << <<"&", <<"\\", "&">> >>,
       <<"%", <<"\\", "%">> >>,
       <<"$", <<"\\", "$">> >>,
       <<"#", <<"\\", "#">> >>,
       <<"_", <<"\\", "_">> >>,
       <<"{", <<"\\", "{">> >>,
       <<"}", <<"\\", "}">> >>,
       <<"~", <<"\\", "textasciitilde", "{", "}">> >>,
       <<"^", <<"\\", "^", "{", "}">> >>,
       <<"\\", <<"\\", "textbackslash", "{", "}">> >> >>

SpecialChars == {escapes[k][1] : k \in 1..Len(escapes)}
Pieces == SpecialChars \cup {"a"}

\* text.replace(k, v) with k a single character
RECURSIVE Replace(_, _, _)
Replace(text, k, v) ==
    IF text = <<>> THEN <<>>
    ELSE (IF Head(text) = k THEN v ELSE <<Head(text)>>) \o Replace(Tail(text), k, v)

EInit ==
    /\ BatchInit
    /\ ocr_file.state = "missing"
    /\ TIdle
    /\ CIdle
    /\ OIdle
    /\ e_text \in SeqsUpTo(Pieces, MaxText)
    /\ e_out = e_text
    /\ e_step = 0

\* one iteration of: for k, v in escapes.items(): text = text.replace(k, v)
EscapeStep ==
    /\ e_step < Len(escapes)
    /\ e_step' = e_step + 1
    /\ e_out' = Replace(e_out, escapes[e_step + 1][1], escapes[e_step + 1][2])
    /\ UNCHANGED <<batchVars, tVars, cVars, oVars, e_text>>

SpecE == EInit /\ [][EscapeStep]_vars

\* the escape sequence the table gives for one piece
EscapeOf(c) ==
    IF c \in SpecialChars
    THEN LET k == CHOOSE k \in 1..Len(escapes) : escapes[k][1] = c IN escapes[k][2]
    ELSE <<c>>

RECURSIVE EscapeEach(_)
EscapeEach(text) ==
    IF text = <<>> THEN <<>> ELSE EscapeOf(Head(text)) \o EscapeEach(Tail(text))

\* C19 (as claimed): what escape_latex returns is its argument with each
\* special character replaced by its escape sequence from the table and
\* nothing else changed, so that "&" gives "\&".
C19_EachSpecialEscapedOnce ==
    e_step = Len(escapes) => e_out = EscapeEach(e_text)

====
